---- MODULE Spec2Model ----
(***************************************************************************)
(* State-machine model of the status line (statusline main script) and of *)
(* the two report commands spend-today and spend-month.                    *)
(*                                                                         *)
(* Time is in whole seconds since the epoch (the code works in             *)
(* milliseconds; seconds are the finest grain the modelled logic reads).   *)
(* Costs are whole cents.  An ISO timestamp string is the tuple            *)
(* <<day, hour, minute, second>>, a date string is the day number.         *)
(***************************************************************************)
EXTENDS Integers, Sequences, FiniteSets, TLC

VARIABLES
    now,        \* wall clock, seconds since the epoch (Date.now())
    ledger,     \* the file data/spend.json
    period,     \* the file data/period-cost.json
    pghost,     \* history of the persisted period record: what was added to it
    pc,         \* per invocation: "idle", "gather", "bg"
    input,      \* per invocation: the stdin payload
    g,          \* per invocation: the five gathered values and their sources
    out,        \* per invocation: what was printed
    sv,         \* per invocation: the saveSession task
    up,         \* per invocation: the updatePeriodCost task
    started,    \* number of invocations started so far
    report,     \* outcome of the last report command
    transcript, \* the transcript file of the session
    scanned     \* result of a getContextTokens scan of transcript

vars == <<now, ledger, period, pghost, pc, input, g, out, sv, up, started,
          report, transcript, scanned>>

----------------------------------------------------------------------------
(* Bounds of the model *)

MaxCost == 2
MaxInvocations == 3
MaxLiveInvocations == 1
MaxConcInvocations == 2
MaxResetIdx == 2
MaxLines == 3
MaxTs == 2

(* Program and calendar constants *)

MsPerMinute == 60000
GitTimeoutMs == 1500
UsageTimeoutMs == 2000
RoundTo == 5
SecPerMin == 60
SecPerHour == 3600
DayLen == 86400
DaysInJan == 31

Procs == {"p1", "p2"}
SeqProcs == {"p1"}
Sessions == {"A", "B"}
Costs == 0..MaxCost

None == "none"
Pending == "pending"

\* The model's clock starts on 31 January 1970, 00:00:00 UTC.
StartNow == (DaysInJan - 1) * DayLen
ShortTick == 400

\* the instants at which something is run: 31 January at midnight and a little
\* later, and 1 February at midnight
NearInstants == {StartNow, StartNow + ShortTick}
Instants == NearInstants \cup {StartNow + DayLen}

----------------------------------------------------------------------------
(* Dates and ISO strings *)

\* Date.prototype.toISOString
ToISO(t) == <<t \div DayLen, (t % DayLen) \div SecPerHour,
              (t % SecPerHour) \div SecPerMin, t % SecPerMin>>

\* new Date(isoString).getTime()
FromISO(s) == s[1] * DayLen + s[2] * SecPerHour + s[3] * SecPerMin + s[4]

\* new Date().toISOString().split("T")[0]
TodayStr(t) == ToISO(t)[1]

----------------------------------------------------------------------------
(* Files *)

AbsentLedger == [kind |-> "absent", sessions |-> <<>>]
CorruptLedger == [kind |-> "corrupt", sessions |-> <<>>]
NoSessionsLedger == [kind |-> "nosessions", sessions |-> <<>>]
OkLedger(ss) == [kind |-> "ok", sessions |-> ss]

NoStamp == <<0, 0, 0, 0>>
AbsentPeriod == [kind |-> "absent", resets_at |-> NoStamp, cost |-> 0,
                 last_session_id |-> ""]
CorruptPeriod == [kind |-> "corrupt", resets_at |-> NoStamp, cost |-> 0,
                  last_session_id |-> ""]
PeriodCostData(r, c, s) == [kind |-> "ok", resets_at |-> r, cost |-> c,
                            last_session_id |-> s]

NoGhost == [counted |-> [s \in Sessions |-> 0], raw |-> 0]

----------------------------------------------------------------------------
(* Spend tracking *)

\* loadSpendData: an absent or unparsable file is an empty ledger; a file that
\* parses is returned as it is, with or without a sessions list.
loadSpendData(file) ==
    CASE file.kind = "absent" -> [hasSessions |-> TRUE, sessions |-> <<>>]
      [] file.kind = "corrupt" -> [hasSessions |-> TRUE, sessions |-> <<>>]
      [] file.kind = "nosessions" -> [hasSessions |-> FALSE, sessions |-> <<>>]
      [] OTHER -> [hasSessions |-> TRUE, sessions |-> file.sessions]

SpendSession(in, t) ==
    [id |-> in.session_id, cost |-> in.cost, date |-> TodayStr(t),
     duration_ms |-> in.duration_ms]

\* data.sessions.findIndex(s => s.id === id); 0 stands for -1
findIndex(ss, id) ==
    IF \E i \in 1..Len(ss) : ss[i].id = id
    THEN CHOOSE i \in 1..Len(ss) :
            /\ ss[i].id = id
            /\ \A j \in 1..(i - 1) : ss[j].id # id
    ELSE 0

\* Variant: the record is appended whether or not the id is there
UpsertAppend(ss, session) == Append(ss, session)

\* the replace-or-append of saveSession
Upsert(ss, session) ==
    LET idx == findIndex(ss, session.id)
    IN  IF idx # 0 THEN [ss EXCEPT ![idx] = session] ELSE Append(ss, session)

RECURSIVE SumCost(_)
SumCost(ss) == IF ss = <<>> THEN 0 ELSE Head(ss).cost + SumCost(Tail(ss))

RECURSIVE SumDuration(_)
SumDuration(ss) ==
    IF ss = <<>> THEN 0 ELSE Head(ss).duration_ms + SumDuration(Tail(ss))

\* getTodayCost: 0 when the load throws or the data has no sessions list
getTodayCost(file, t) ==
    LET data == loadSpendData(file)
        IsToday(s) == s.date = TodayStr(t)
    IN  IF ~data.hasSessions THEN 0 ELSE SumCost(SelectSeq(data.sessions, IsToday))

----------------------------------------------------------------------------
(* Period cost (5h window) *)

\* Variant: Math.floor in place of Math.round
RoundMinsFloor(mins) == mins \div RoundTo

\* Math.round(mins / 5) for an integer mins: floor(mins / 5 + 1/2)
RoundMins(mins) == (2 * mins + RoundTo) \div (2 * RoundTo)

\* resetDate.setMinutes(Math.round(mins / 5) * 5, 0, 0): the minutes within the
\* hour are rounded, seconds and milliseconds are set to zero; 60 minutes carry
\* into the next hour.
NormalizeReset(resetsAt) ==
    LET mins == (resetsAt % SecPerHour) \div SecPerMin
    IN  (resetsAt - (resetsAt % SecPerHour)) + RoundMins(mins) * RoundTo * SecPerMin

\* loadPeriodData: null (kind "absent") for an absent or unparsable file
loadPeriodData(file) == IF file.kind = "ok" THEN file ELSE AbsentPeriod

\* Variant: the expiry test left out
getCurrentPeriodCostStale(file, t) ==
    LET data == loadPeriodData(file)
    IN  IF data.kind # "ok" THEN 0 ELSE data.cost

\* getCurrentPeriodCost
getCurrentPeriodCost(file, t) ==
    LET data == loadPeriodData(file)
    IN  IF data.kind # "ok" THEN 0
        ELSE IF t > FromISO(data.resets_at) THEN 0
        ELSE data.cost

----------------------------------------------------------------------------
(* Context *)

\* A transcript line.  parsable: JSON.parse succeeds; hasUsage: message.usage
\* is present; timestamp: "none" (absent or empty), "invalid" (a non-empty
\* string that is no date) or "valid" with its instant t.
Line(parsable, hasUsage, side, err, ts, toks) ==
    [parsable |-> parsable, hasUsage |-> hasUsage, isSidechain |-> side,
     isApiErrorMessage |-> err, timestamp |-> ts, usage |-> toks]

NoTs == [kind |-> "none", t |-> 0]
InvalidTs == [kind |-> "invalid", t |-> 0]
ValidTs(t) == [kind |-> "valid", t |-> t]
NullDate == [kind |-> "null", t |-> 0]

NotScanned == [done |-> FALSE, tokens |-> 0]

NoTranscript == [exists |-> FALSE, lines |-> <<>>]
Transcript(ls) == [exists |-> TRUE, lines |-> ls]

\* time > latest on two Date objects: false when either is an Invalid Date
DateGreater(a, b) == a.kind = "valid" /\ b.kind = "valid" /\ a.t > b.t

\* (u.input_tokens || 0) + (u.cache_read_input_tokens || 0)
\*   + (u.cache_creation_input_tokens || 0)
UsageSum(u) == u[1] + u[2] + u[3]

\* the loop of getContextTokens over lines i..Len(ls), from (latest, tokens)
RECURSIVE ScanLines(_, _, _, _)
ScanLines(ls, i, latest, tokens) ==
    IF i > Len(ls) THEN tokens
    ELSE LET data == ls[i]
             skip == \/ ~data.parsable
                     \/ ~data.hasUsage
                     \/ data.isSidechain
                     \/ data.isApiErrorMessage
                     \/ data.timestamp.kind = "none"
             time == data.timestamp
         IN  IF skip THEN ScanLines(ls, i + 1, latest, tokens)
             ELSE IF latest.kind = "null" \/ DateGreater(time, latest)
                  THEN ScanLines(ls, i + 1, time, UsageSum(data.usage))
                  ELSE ScanLines(ls, i + 1, latest, tokens)

getContextTokens(tr) ==
    IF ~tr.exists THEN 0 ELSE ScanLines(tr.lines, 1, NullDate, 0)

----------------------------------------------------------------------------
(* The environment's answers *)

\* reset timestamps the usage API may report, around the 2:30 and 3:00 marks
\* of the first five minutes after StartNow
ResetStamps == {StartNow + 140 + 20 * k : k \in 0..MaxResetIdx}

\* getUsageLimits: five_hour null ("unknown"), five_hour with a resets_at that
\* is a date ("known"), or with a resets_at string that is no date ("garbled")
UsageResults ==
    {[five |-> "unknown", resets_at |-> 0], [five |-> "garbled", resets_at |-> 0]}
    \cup {[five |-> "known", resets_at |-> r] : r \in ResetStamps}

\* one answer of each kind
OneOfEachUsage ==
    {[five |-> "unknown", resets_at |-> 0], [five |-> "garbled", resets_at |-> 0],
     [five |-> "known", resets_at |-> StartNow + 140]}

\* the usage API reports one five-hour window
OneWindowUsage == {[five |-> "known", resets_at |-> StartNow + 140]}

\* the usage API is unreachable or reports no five-hour window
NoUsageResults == {[five |-> "unknown", resets_at |-> 0]}

GitResults == {"empty", "branch"}

SampleLine == Line(TRUE, TRUE, FALSE, FALSE, ValidTs(1), <<1, 2, 4>>)
MainTranscripts == {NoTranscript, Transcript(<<SampleLine>>)}

----------------------------------------------------------------------------
(* One invocation of the status line *)

NoInput == [session_id |-> "", cost |-> 0, duration_ms |-> 0]
\* the payloads on stdin: a session's cost and duration grow together
HookInputs ==
    {[session_id |-> s, cost |-> c, duration_ms |-> MsPerMinute * (c + 1)] :
        s \in Sessions, c \in Costs}

NoGather ==
    [git |-> Pending, gitBy |-> None, gitSrc |-> None,
     five |-> Pending, resets_at |-> 0, usageBy |-> None, usageSrc |-> None,
     tokens |-> 0, tokensDone |-> FALSE,
     todayCost |-> 0, todayDone |-> FALSE,
     periodCost |-> 0, periodDone |-> FALSE]

NoOut == [printed |-> FALSE, cost |-> 0, tokens |-> 0, duration |-> 0,
          git |-> "", five |-> "", periodTotal |-> 0, todayTotal |-> 0]

\* raced: another process's writeFile of the same file has completed while
\* this one's was under way
NoTask == [st |-> None, loaded |-> <<>>, data |-> <<>>, raced |-> FALSE]
NoUpdate == [st |-> None, loaded |-> AbsentPeriod, data |-> AbsentPeriod,
             ghost |-> NoGhost, raced |-> FALSE]

NoReport == [cmd |-> None, status |-> None, days |-> <<>>, total |-> 0,
             duration |-> 0, count |-> 0, tz |-> 0]

AllIdle == (\A q \in Procs : pc[q] = "idle") /\ report = NoReport

\* const input = await Bun.stdin.json(); then the five sources of Promise.all
\* are started.  loadSpendData and loadPeriodData test existsSync at once: for
\* an absent file their result is there without a read.
Start(p, maxStarted) ==
    /\ pc[p] = "idle"
    /\ report = NoReport
    /\ started < maxStarted
    /\ \E in \in HookInputs :
          input' = [input EXCEPT ![p] = in]
    /\ pc' = [pc EXCEPT ![p] = "gather"]
    /\ g' = [g EXCEPT ![p] =
                [NoGather EXCEPT
                    !.gitSrc = "running", !.usageSrc = "running",
                    !.todayDone = (ledger.kind = "absent"),
                    !.periodDone = (period.kind = "absent")]]
    /\ started' = started + 1
    /\ UNCHANGED <<now, ledger, period, pghost, out, sv, up, report,
                   transcript, scanned>>

\* getGitStatus() resolves.  If the race is still open its value wins,
\* otherwise the timer has won and the value is dropped.
GitResolve(p, results) ==
    /\ pc[p] \in {"gather", "bg"}
    /\ g[p].gitSrc = "running"
    /\ \E r \in results :
          g' = [g EXCEPT ![p] =
                  IF g[p].git = Pending
                  THEN [@ EXCEPT !.gitSrc = "done", !.git = r, !.gitBy = "source"]
                  ELSE [@ EXCEPT !.gitSrc = "done"]]
    /\ UNCHANGED <<now, ledger, period, pghost, pc, input, out, sv, up,
                   started, report, transcript, scanned>>

\* setTimeout(() => r(emptyGit), 1500)
GitTimeout(p) ==
    /\ pc[p] = "gather"
    /\ g[p].git = Pending
    /\ g' = [g EXCEPT ![p] = [@ EXCEPT !.git = "empty", !.gitBy = "timer"]]
    /\ UNCHANGED <<now, ledger, period, pghost, pc, input, out, sv, up,
                   started, report, transcript, scanned>>

\* getUsageLimits() resolves
UsageResolve(p, results) ==
    /\ pc[p] \in {"gather", "bg"}
    /\ g[p].usageSrc = "running"
    /\ \E u \in results :
          g' = [g EXCEPT ![p] =
                  IF g[p].five = Pending
                  THEN [@ EXCEPT !.usageSrc = "done", !.five = u.five,
                                 !.resets_at = u.resets_at, !.usageBy = "source"]
                  ELSE [@ EXCEPT !.usageSrc = "done"]]
    /\ UNCHANGED <<now, ledger, period, pghost, pc, input, out, sv, up,
                   started, report, transcript, scanned>>

\* setTimeout(() => r({five_hour: null, seven_day: null}), 2000): both timers
\* are set in the same turn, so the 1500 ms one has fired before this one.
UsageTimeout(p) ==
    /\ pc[p] = "gather"
    /\ g[p].five = Pending
    /\ (GitTimeoutMs < UsageTimeoutMs) => g[p].git # Pending
    /\ g' = [g EXCEPT ![p] = [@ EXCEPT !.five = "unknown", !.usageBy = "timer"]]
    /\ UNCHANGED <<now, ledger, period, pghost, pc, input, out, sv, up,
                   started, report, transcript, scanned>>

\* getContextTokens(input.transcript_path) resolves
Context(p, transcripts) ==
    /\ pc[p] = "gather"
    /\ ~g[p].tokensDone
    /\ \E tr \in transcripts :
          g' = [g EXCEPT ![p] =
                  [@ EXCEPT !.tokensDone = TRUE, !.tokens = getContextTokens(tr)]]
    /\ UNCHANGED <<now, ledger, period, pghost, pc, input, out, sv, up,
                   started, report, transcript, scanned>>

\* getTodayCost() resolves: the read of spend.json
ReadToday(p) ==
    /\ pc[p] = "gather"
    /\ ~g[p].todayDone
    /\ g' = [g EXCEPT ![p] =
                [@ EXCEPT !.todayDone = TRUE,
                          !.todayCost = getTodayCost(ledger, now)]]
    /\ UNCHANGED <<now, ledger, period, pghost, pc, input, out, sv, up,
                   started, report, transcript, scanned>>

\* getCurrentPeriodCost() resolves: the read of period-cost.json
ReadPeriod(p) ==
    /\ pc[p] = "gather"
    /\ ~g[p].periodDone
    /\ g' = [g EXCEPT ![p] =
                [@ EXCEPT !.periodDone = TRUE,
                          !.periodCost = getCurrentPeriodCost(period, now)]]
    /\ UNCHANGED <<now, ledger, period, pghost, pc, input, out, sv, up,
                   started, report, transcript, scanned>>

\* Variant: a new window keeps the cost of the previous one
updatePeriodCostCarry(data, ghost, sessionId, sessionCost, five, resetsAt) ==
    LET normalizedReset == ToISO(NormalizeReset(resetsAt))
    IN  IF five = "garbled"
        THEN [NoUpdate EXCEPT !.st = "threw", !.loaded = data]
        ELSE IF data.kind = "ok" /\ data.resets_at = normalizedReset
        THEN IF data.last_session_id # sessionId
             THEN [st |-> "writing", loaded |-> data, raced |-> FALSE,
                   data |-> [data EXCEPT !.cost = data.cost + sessionCost,
                                         !.last_session_id = sessionId],
                   ghost |-> [ghost EXCEPT !.counted[sessionId] = @ + 1]]
             ELSE [NoUpdate EXCEPT !.st = "noop", !.loaded = data]
        ELSE [st |-> "writing", loaded |-> data, raced |-> FALSE,
              data |-> PeriodCostData(normalizedReset, data.cost + sessionCost,
                                      sessionId),
              ghost |-> [counted |-> [s \in Sessions |->
                                         IF s = sessionId THEN 1 ELSE 0],
                         raw |-> resetsAt]]

\* Variant: in the same window the cost is replaced, not added
updatePeriodCostReplace(data, ghost, sessionId, sessionCost, five, resetsAt) ==
    LET normalizedReset == ToISO(NormalizeReset(resetsAt))
    IN  IF five = "garbled"
        THEN [NoUpdate EXCEPT !.st = "threw", !.loaded = data]
        ELSE IF data.kind = "ok" /\ data.resets_at = normalizedReset
        THEN IF data.last_session_id # sessionId
             THEN [st |-> "writing", loaded |-> data, raced |-> FALSE,
                   data |-> [data EXCEPT !.cost = sessionCost,
                                         !.last_session_id = sessionId],
                   ghost |-> [ghost EXCEPT !.counted[sessionId] = @ + 1]]
             ELSE [NoUpdate EXCEPT !.st = "noop", !.loaded = data]
        ELSE [st |-> "writing", loaded |-> data, raced |-> FALSE,
              data |-> PeriodCostData(normalizedReset, sessionCost, sessionId),
              ghost |-> [counted |-> [s \in Sessions |->
                                         IF s = sessionId THEN 1 ELSE 0],
                         raw |-> resetsAt]]

\* What updatePeriodCost does with the loaded record (lines 338-358): the task
\* state it ends in and, when it writes, the record it writes.
updatePeriodCost(data, ghost, sessionId, sessionCost, five, resetsAt) ==
    LET normalizedReset == ToISO(NormalizeReset(resetsAt))
    IN  IF five = "garbled"
        THEN [NoUpdate EXCEPT !.st = "threw", !.loaded = data]
        ELSE IF data.kind = "ok" /\ data.resets_at = normalizedReset
        THEN IF data.last_session_id # sessionId
             THEN [st |-> "writing", loaded |-> data, raced |-> FALSE,
                   data |-> [data EXCEPT !.cost = data.cost + sessionCost,
                                         !.last_session_id = sessionId],
                   ghost |-> [ghost EXCEPT !.counted[sessionId] = @ + 1]]
             ELSE [NoUpdate EXCEPT !.st = "noop", !.loaded = data]
        ELSE [st |-> "writing", loaded |-> data, raced |-> FALSE,
              data |-> PeriodCostData(normalizedReset, sessionCost, sessionId),
              ghost |-> [counted |-> [s \in Sessions |->
                                         IF s = sessionId THEN 1 ELSE 0],
                         raw |-> resetsAt]]

\* What saveSession does with the loaded ledger (lines 275-292)
saveSession(data, in, t) ==
    IF ~data.hasSessions
    THEN [NoTask EXCEPT !.st = "threw"]
    ELSE [st |-> "writing", loaded |-> data.sessions, raced |-> FALSE,
          data |-> Upsert(data.sessions, SpendSession(in, t))]

\* The two printed lines (lines 400-467), as the values they show
Render(in, gp) ==
    [printed |-> TRUE,
     cost |-> in.cost,
     tokens |-> gp.tokens,
     duration |-> in.duration_ms \div MsPerMinute,
     git |-> gp.git,
     five |-> gp.five,
     periodTotal |-> IF gp.five = "unknown" THEN 0 ELSE gp.periodCost + in.cost,
     todayTotal |-> gp.todayCost + in.cost]

\* Variant: getGitStatus() is awaited itself, without the race
SettledNoRace(p) ==
    /\ g[p].gitSrc = "done"
    /\ g[p].git # Pending
    /\ g[p].five # Pending
    /\ g[p].tokensDone
    /\ g[p].todayDone
    /\ g[p].periodDone

\* await Promise.all([...]) resumes: all five values are there
Settled(p) ==
    /\ g[p].git # Pending
    /\ g[p].five # Pending
    /\ g[p].tokensDone
    /\ g[p].todayDone
    /\ g[p].periodDone

\* Variant: saveSession is awaited, so the ledger is written, before printing
MainSyncAwaitSave(p) ==
    /\ pc[p] = "gather"
    /\ Settled(p)
    /\ IF input[p].session_id = "" \/ input[p].cost = 0 \/ ledger.kind = "nosessions"
       THEN /\ sv' = [sv EXCEPT ![p] = [NoTask EXCEPT !.st = "skipped"]]
            /\ ledger' = ledger
       ELSE /\ sv' = [sv EXCEPT ![p] = [NoTask EXCEPT !.st = "written"]]
            /\ ledger' = OkLedger(Upsert(loadSpendData(ledger).sessions,
                                         SpendSession(input[p], now)))
    /\ up' = [up EXCEPT ![p] = [NoUpdate EXCEPT !.st = "skipped"]]
    /\ out' = [out EXCEPT ![p] = Render(input[p], g[p])]
    /\ pc' = [pc EXCEPT ![p] = "bg"]
    /\ UNCHANGED <<now, period, pghost, input, g, started, report,
                   transcript, scanned>>

\* The rest of the module body after Promise.all, one synchronous turn:
\* saveSession(input) and updatePeriodCost(...) each run to their first await,
\* then the lines are built and printed.
MainSync(p) ==
    /\ pc[p] = "gather"
    /\ Settled(p)
    /\ sv' = [sv EXCEPT ![p] =
                IF input[p].session_id = "" \/ input[p].cost = 0
                THEN [NoTask EXCEPT !.st = "skipped"]
                ELSE IF ledger.kind = "absent"
                THEN saveSession(loadSpendData(ledger), input[p], now)
                ELSE [NoTask EXCEPT !.st = "loading"]]
    /\ up' = [up EXCEPT ![p] =
                IF g[p].five = "unknown" \/ input[p].cost = 0
                THEN [NoUpdate EXCEPT !.st = "skipped"]
                ELSE IF period.kind = "absent"
                THEN updatePeriodCost(loadPeriodData(period), NoGhost,
                                      input[p].session_id, input[p].cost,
                                      g[p].five, g[p].resets_at)
                ELSE [NoUpdate EXCEPT !.st = "loading"]]
    /\ out' = [out EXCEPT ![p] = Render(input[p], g[p])]
    /\ pc' = [pc EXCEPT ![p] = "bg"]
    /\ UNCHANGED <<now, ledger, period, pghost, input, g, started, report,
                   transcript, scanned>>

\* saveSession: await loadSpendData() completes, the new ledger is built
SaveLoad(p) ==
    /\ pc[p] = "bg"
    /\ sv[p].st = "loading"
    /\ sv' = [sv EXCEPT ![p] = saveSession(loadSpendData(ledger), input[p], now)]
    /\ UNCHANGED <<now, ledger, period, pghost, pc, input, g, out, up,
                   started, report, transcript, scanned>>

\* the writes of the same file under way in other processes are overtaken
Overtake(tasks, p) ==
    [q \in Procs |->
        IF q = p THEN [tasks[p] EXCEPT !.st = "written"]
        ELSE IF tasks[q].st = "writing" THEN [tasks[q] EXCEPT !.raced = TRUE]
        ELSE tasks[q]]

\* saveSession: await writeFile(SPEND_FILE, ...) completes.  writeFile opens
\* the file truncating it, then writes from its start: where another process
\* has written another text to the file in between, the bytes of the two
\* writes are laid over each other and the file is this process's text or
\* unreadable.  A failed write is swallowed; it leaves the file as it was or
\* truncated.
SaveWrite(p) ==
    /\ pc[p] = "bg"
    /\ sv[p].st = "writing"
    /\ \/ /\ \/ ledger' = OkLedger(sv[p].data)
             \/ /\ sv[p].raced
                /\ ledger # OkLedger(sv[p].data)
                /\ ledger' = CorruptLedger
          /\ sv' = Overtake(sv, p)
       \/ /\ ledger' \in {ledger, CorruptLedger}
          /\ sv' = [sv EXCEPT ![p] = [@ EXCEPT !.st = "failed"]]
    /\ UNCHANGED <<now, period, pghost, pc, input, g, out, up, started,
                   report, transcript, scanned>>

\* updatePeriodCost: await loadPeriodData() completes, the branch is taken
UpLoad(p) ==
    /\ pc[p] = "bg"
    /\ up[p].st = "loading"
    /\ up' = [up EXCEPT ![p] =
                updatePeriodCost(loadPeriodData(period), pghost,
                                 input[p].session_id, input[p].cost,
                                 g[p].five, g[p].resets_at)]
    /\ UNCHANGED <<now, ledger, period, pghost, pc, input, g, out, sv,
                   started, report, transcript, scanned>>

\* savePeriodData: await writeFile(PERIOD_FILE, ...) completes, as in SaveWrite
UpWrite(p) ==
    /\ pc[p] = "bg"
    /\ up[p].st = "writing"
    /\ \/ /\ \/ period' = up[p].data /\ pghost' = up[p].ghost
             \/ /\ up[p].raced
                /\ period # up[p].data
                /\ period' = CorruptPeriod /\ pghost' = NoGhost
          /\ up' = Overtake(up, p)
       \/ /\ \/ period' = period /\ pghost' = pghost
             \/ period' = CorruptPeriod /\ pghost' = NoGhost
          /\ up' = [up EXCEPT ![p] = [@ EXCEPT !.st = "failed"]]
    /\ UNCHANGED <<now, ledger, pc, input, g, out, sv, started, report,
                   transcript, scanned>>

TaskOver(st) == st \in {"skipped", "threw", "noop", "written", "failed"}

\* Both background tasks are over: the process exits.
Finish(p) ==
    /\ pc[p] = "bg"
    /\ TaskOver(sv[p].st)
    /\ TaskOver(up[p].st)
    /\ pc' = [pc EXCEPT ![p] = "idle"]
    /\ input' = [input EXCEPT ![p] = NoInput]
    /\ g' = [g EXCEPT ![p] = NoGather]
    /\ out' = [out EXCEPT ![p] = NoOut]
    /\ sv' = [sv EXCEPT ![p] = NoTask]
    /\ up' = [up EXCEPT ![p] = NoUpdate]
    /\ UNCHANGED <<now, ledger, period, pghost, started, report, transcript,
                   scanned>>

----------------------------------------------------------------------------
(* The clock *)

\* Time passes between invocations: a few minutes, or a day.
Tick(instants) ==
    /\ AllIdle
    /\ \E t \in instants :
          /\ t > now
          /\ now' = t
    /\ UNCHANGED <<ledger, period, pghost, pc, input, g, out, sv, up, started,
                   report, transcript, scanned>>

----------------------------------------------------------------------------
(* The report commands *)

\* the process's time zone, seconds east of UTC
TzOffsets == {0 - SecPerHour, 0, SecPerHour}

\* first day of the month of day d (January and February 1970)
MonthStartDay(d) == IF d < DaysInJan THEN 0 ELSE DaysInJan

\* new Date(now.getFullYear(), now.getMonth(), 1).toISOString().split("T")[0]:
\* local midnight of the first of the local month, as a UTC date
MonthStartStr(t, tz) ==
    LET localDay == (t + tz) \div DayLen
        firstLocalMidnight == MonthStartDay(localDay) * DayLen - tz
    IN  TodayStr(firstLocalMidnight)

Dates(ss) == {ss[i].date : i \in 1..Len(ss)}

\* [...byDate.keys()].sort((a, b) => b.localeCompare(a))
RECURSIVE SortDesc(_)
SortDesc(S) ==
    IF S = {} THEN <<>>
    ELSE LET m == CHOOSE x \in S : \A y \in S : y <= x
         IN  <<m>> \o SortDesc(S \ {m})

\* one printed day line of the month report
DayLine(ss, date) ==
    LET OnDate(s) == s.date = date
        sessions == SelectSeq(ss, OnDate)
    IN  [date |-> date, cost |-> SumCost(sessions),
         duration |-> SumDuration(sessions), count |-> Len(sessions)]

RECURSIVE SumField(_, _)
SumField(ls, f) == IF ls = <<>> THEN 0 ELSE Head(ls)[f] + SumField(Tail(ls), f)

\* main() of spend-today-win.ts
spendToday(file, t) ==
    IF file.kind = "absent"
    THEN [NoReport EXCEPT !.cmd = "today", !.status = "No spend data found."]
    ELSE IF file.kind \in {"corrupt", "nosessions"}
    THEN [NoReport EXCEPT !.cmd = "today", !.status = "uncaught error"]
    ELSE LET IsToday(s) == s.date = TodayStr(t)
             todaySessions == SelectSeq(file.sessions, IsToday)
         IN  IF Len(todaySessions) = 0
             THEN [NoReport EXCEPT !.cmd = "today",
                                   !.status = "No sessions today."]
             ELSE [cmd |-> "today", status |-> "listed", days |-> <<>>,
                   total |-> SumCost(todaySessions),
                   duration |-> SumDuration(todaySessions),
                   count |-> Len(todaySessions), tz |-> 0]

\* main() of spend-month-win.ts
spendMonth(file, t, tz) ==
    IF file.kind = "absent"
    THEN [NoReport EXCEPT !.cmd = "month", !.status = "No spend data found."]
    ELSE IF file.kind \in {"corrupt", "nosessions"}
    THEN [NoReport EXCEPT !.cmd = "month", !.status = "uncaught error"]
    ELSE LET monthStart == MonthStartStr(t, tz)
             InMonth(s) == s.date >= monthStart
             monthSessions == SelectSeq(file.sessions, InMonth)
             sortedDates == SortDesc(Dates(monthSessions))
             days == [i \in 1..Len(sortedDates) |->
                         DayLine(monthSessions, sortedDates[i])]
         IN  IF Len(monthSessions) = 0
             THEN [NoReport EXCEPT !.cmd = "month",
                                   !.status = "No sessions this month."]
             ELSE [cmd |-> "month", status |-> "listed", days |-> days,
                   total |-> SumField(days, "cost"),
                   duration |-> SumField(days, "duration"),
                   count |-> SumField(days, "count"), tz |-> tz]

SpendToday ==
    /\ AllIdle
    /\ report' = spendToday(ledger, now)
    /\ UNCHANGED <<now, ledger, period, pghost, pc, input, g, out, sv, up,
                   started, transcript, scanned>>

SpendMonth ==
    /\ AllIdle
    /\ \E tz \in TzOffsets : report' = spendMonth(ledger, now, tz)
    /\ UNCHANGED <<now, ledger, period, pghost, pc, input, g, out, sv, up,
                   started, transcript, scanned>>

\* the report command's process is over
ReportExit ==
    /\ report # NoReport
    /\ report' = NoReport
    /\ UNCHANGED <<now, ledger, period, pghost, pc, input, g, out, sv, up,
                   started, transcript, scanned>>

----------------------------------------------------------------------------
(* Specifications *)

Init ==
    /\ now = StartNow
    /\ ledger \in {AbsentLedger, CorruptLedger, NoSessionsLedger, OkLedger(<<>>)}
    /\ period \in {AbsentPeriod, CorruptPeriod}
    /\ pghost = NoGhost
    /\ pc = [p \in Procs |-> "idle"]
    /\ input = [p \in Procs |-> NoInput]
    /\ g = [p \in Procs |-> NoGather]
    /\ out = [p \in Procs |-> NoOut]
    /\ sv = [p \in Procs |-> NoTask]
    /\ up = [p \in Procs |-> NoUpdate]
    /\ started = 0
    /\ report = NoReport
    /\ transcript = NoTranscript
    /\ scanned = NotScanned

\* The order in which one invocation's sources are let to settle and its two
\* background tasks to run, where a specification fixes one: within one
\* invocation they touch different data, and nothing else runs meanwhile.
Turn(p) ==
    CASE pc[p] = "gather" /\ g[p].git = Pending -> "git"
      [] pc[p] = "gather" /\ g[p].git # Pending /\ ~g[p].tokensDone -> "context"
      [] pc[p] = "gather" /\ g[p].git # Pending /\ g[p].tokensDone
            /\ g[p].five = Pending -> "usage"
      [] pc[p] = "bg" /\ ~TaskOver(sv[p].st) -> "save"
      [] pc[p] = "bg" /\ TaskOver(sv[p].st) -> "update"
      [] OTHER -> "any"

\* Sequential use: one invocation at a time, every source answering in time,
\* all within one day.
Next ==
    \/ \E p \in SeqProcs : Start(p, MaxInvocations)
    \/ \E p \in SeqProcs : Turn(p) = "git" /\ GitResolve(p, {"branch"})
    \/ \E p \in SeqProcs :
          Turn(p) = "context" /\ Context(p, {Transcript(<<SampleLine>>)})
    \/ \E p \in SeqProcs : Turn(p) = "usage" /\ UsageResolve(p, UsageResults)
    \/ \E p \in SeqProcs : Turn(p) = "any" /\ ReadToday(p)
    \/ \E p \in SeqProcs : Turn(p) = "any" /\ g[p].todayDone /\ ReadPeriod(p)
    \/ \E p \in SeqProcs : MainSync(p)
    \/ \E p \in SeqProcs : SaveLoad(p)
    \/ \E p \in SeqProcs : SaveWrite(p)
    \/ \E p \in SeqProcs : Turn(p) = "update" /\ UpLoad(p)
    \/ \E p \in SeqProcs : Turn(p) = "update" /\ UpWrite(p)
    \/ \E p \in SeqProcs : Finish(p)
    \/ Tick(NearInstants)

Spec == Init /\ [][Next]_vars

\* Sequential use over two days with the report commands run in between, the
\* usage API reporting no window: updatePeriodCost returns at once.
NextReports ==
    \/ \E p \in SeqProcs : Start(p, MaxInvocations)
    \/ \E p \in SeqProcs : Turn(p) = "git" /\ GitResolve(p, {"branch"})
    \/ \E p \in SeqProcs :
          Turn(p) = "context" /\ Context(p, {Transcript(<<SampleLine>>)})
    \/ \E p \in SeqProcs : Turn(p) = "usage" /\ UsageResolve(p, NoUsageResults)
    \/ \E p \in SeqProcs : Turn(p) = "any" /\ ReadToday(p)
    \/ \E p \in SeqProcs : Turn(p) = "any" /\ g[p].todayDone /\ ReadPeriod(p)
    \/ \E p \in SeqProcs : MainSync(p)
    \/ \E p \in SeqProcs : SaveLoad(p)
    \/ \E p \in SeqProcs : SaveWrite(p)
    \/ \E p \in SeqProcs : Finish(p)
    \/ Tick(Instants)
    \/ SpendToday
    \/ SpendMonth
    \/ ReportExit

SpecReports == Init /\ [][NextReports]_vars

\* Overlapping use: two invocations at a time, the background tasks of each in
\* any order, the usage API reporting no window: updatePeriodCost returns at
\* once, saveSession runs.
NextConc ==
    \/ \E p \in Procs : Start(p, MaxConcInvocations)
    \/ \E p \in Procs : Turn(p) = "git" /\ GitResolve(p, {"branch"})
    \/ \E p \in Procs :
          Turn(p) = "context" /\ Context(p, {Transcript(<<SampleLine>>)})
    \/ \E p \in Procs : Turn(p) = "usage" /\ UsageResolve(p, NoUsageResults)
    \/ \E p \in Procs : Turn(p) = "any" /\ ReadToday(p)
    \/ \E p \in Procs : Turn(p) = "any" /\ g[p].todayDone /\ ReadPeriod(p)
    \/ \E p \in Procs : MainSync(p)
    \/ \E p \in Procs : SaveLoad(p)
    \/ \E p \in Procs : SaveWrite(p)
    \/ \E p \in Procs : Finish(p)
    \/ Tick(Instants)

SpecConc == Init /\ [][NextConc]_vars

\* Overlapping use with a five-hour window known: both files are written.
NextRace ==
    \/ \E p \in Procs : Start(p, MaxConcInvocations)
    \/ \E p \in Procs : Turn(p) = "git" /\ GitResolve(p, {"branch"})
    \/ \E p \in Procs :
          Turn(p) = "context" /\ Context(p, {Transcript(<<SampleLine>>)})
    \/ \E p \in Procs : Turn(p) = "usage" /\ UsageResolve(p, OneWindowUsage)
    \/ \E p \in Procs : Turn(p) = "any" /\ ReadToday(p)
    \/ \E p \in Procs : Turn(p) = "any" /\ g[p].todayDone /\ ReadPeriod(p)
    \/ \E p \in Procs : MainSync(p)
    \/ \E p \in Procs : SaveLoad(p)
    \/ \E p \in Procs : SaveWrite(p)
    \/ \E p \in Procs : UpLoad(p)
    \/ \E p \in Procs : UpWrite(p)
    \/ \E p \in Procs : Finish(p)

SpecRace == Init /\ [][NextRace]_vars

\* One invocation with every behaviour of its sources: they settle in any
\* order, git and usage may answer late or never, the timers fire.
NextLive ==
    \/ \E p \in SeqProcs : Start(p, MaxLiveInvocations)
    \/ \E p \in SeqProcs : GitResolve(p, GitResults)
    \/ \E p \in SeqProcs : GitTimeout(p)
    \/ \E p \in SeqProcs : UsageResolve(p, OneOfEachUsage)
    \/ \E p \in SeqProcs : UsageTimeout(p)
    \/ \E p \in SeqProcs : Context(p, MainTranscripts)
    \/ \E p \in SeqProcs : ReadToday(p)
    \/ \E p \in SeqProcs : ReadPeriod(p)
    \/ \E p \in SeqProcs : MainSync(p)
    \/ \E p \in SeqProcs : SaveLoad(p)
    \/ \E p \in SeqProcs : SaveWrite(p)
    \/ \E p \in SeqProcs : Turn(p) = "update" /\ UpLoad(p)
    \/ \E p \in SeqProcs : Turn(p) = "update" /\ UpWrite(p)
    \/ \E p \in SeqProcs : Finish(p)

\* The timers fire, the reads of local files complete and the event loop runs
\* what is ready; nothing makes git or the usage API answer.
FairLive ==
    \A p \in SeqProcs :
        /\ WF_vars(GitTimeout(p))
        /\ WF_vars(UsageTimeout(p))
        /\ WF_vars(Context(p, MainTranscripts))
        /\ WF_vars(ReadToday(p))
        /\ WF_vars(ReadPeriod(p))
        /\ WF_vars(MainSync(p))

SpecLive == Init /\ [][NextLive]_vars /\ FairLive

\* getContextTokens alone, on every transcript of up to MaxLines lines
TsValues == {NoTs, InvalidTs} \cup {ValidTs(t) : t \in 1..MaxTs}
UsageValues == {<<1, 2, 4>>, <<8, 0, 0>>}
Lines ==
    {Line(FALSE, FALSE, FALSE, FALSE, NoTs, <<0, 0, 0>>)}
    \cup {Line(TRUE, f[1], f[2], f[3], ts, u) :
            f \in {<<TRUE, FALSE, FALSE>>, <<FALSE, FALSE, FALSE>>,
                   <<TRUE, TRUE, FALSE>>, <<TRUE, FALSE, TRUE>>},
            ts \in TsValues, u \in UsageValues}
Transcripts ==
    {NoTranscript}
    \cup {Transcript(ls) : ls \in UNION {[1..n -> Lines] : n \in 0..MaxLines}}

InitCtx ==
    /\ now = StartNow
    /\ ledger = AbsentLedger
    /\ period = AbsentPeriod
    /\ pghost = NoGhost
    /\ pc = [p \in Procs |-> "idle"]
    /\ input = [p \in Procs |-> NoInput]
    /\ g = [p \in Procs |-> NoGather]
    /\ out = [p \in Procs |-> NoOut]
    /\ sv = [p \in Procs |-> NoTask]
    /\ up = [p \in Procs |-> NoUpdate]
    /\ started = 0
    /\ report = NoReport
    /\ transcript \in Transcripts
    /\ scanned = NotScanned

Scan ==
    /\ ~scanned.done
    /\ scanned' = [done |-> TRUE, tokens |-> getContextTokens(transcript)]
    /\ UNCHANGED <<now, ledger, period, pghost, pc, input, g, out, sv, up,
                   started, report, transcript>>

SpecCtx == InitCtx /\ [][Scan]_vars

----------------------------------------------------------------------------
(* Properties of the period tracker *)

\* the whole minute a timestamp lies in
TruncMinute(t) == t - (t % SecPerMin)

\* the 5-minute boundary nearest to t (the later one when t is midway)
NearestBoundary(t) ==
    LET five == RoundTo * SecPerMin
    IN  ((2 * t + five) \div (2 * five)) * five

\* the instant the persisted window ends, from the timestamp that opened it
WindowEnd == NearestBoundary(TruncMinute(pghost.raw))

\* a call with a date for resets_at has taken its branch and not yet written
Decided(p) == up[p].st \in {"writing", "noop"} /\ g[p].five = "known"

\* the call of p treats the loaded record as its own window: it adds to it or
\* leaves it alone, and starts no new record
SameWindow(p) ==
    \/ up[p].st = "noop"
    \/ /\ up[p].st = "writing"
       /\ up[p].data.resets_at = up[p].loaded.resets_at
       /\ up[p].data.cost = up[p].loaded.cost + input[p].cost

\* C1 (as claimed): within one billing window each session's cost is added to
\* the cumulative period cost at most once, whatever calls of other sessions
\* come in between.
C1_CountedOnce ==
    period.kind = "ok" => \A s \in Sessions : pghost.counted[s] <= 1

\* C3 (as claimed): two supplied timestamps whose nearest 5-minute boundary is
\* the same instant give the same normalized key, so the second call is
\* treated as the same window.
C3_NearestSameWindow ==
    \A p \in Procs :
        ( /\ Decided(p)
          /\ up[p].loaded.kind = "ok"
          /\ NearestBoundary(pghost.raw) = NearestBoundary(g[p].resets_at) )
        => SameWindow(p)

\* C3 (amended): the normalized key is the 5-minute boundary nearest to the
\* supplied timestamp with its seconds dropped (minutes a multiple of 5, zero
\* seconds), and two supplied timestamps for which that boundary is the same
\* instant make the second call a call of the same window.
C3_MinuteRounded ==
    /\ period.kind = "ok" =>
          /\ period.resets_at = ToISO(WindowEnd)
          /\ period.resets_at[3] % RoundTo = 0
          /\ period.resets_at[4] = 0
    /\ \A p \in Procs :
          ( /\ Decided(p)
            /\ up[p].loaded.kind = "ok"
            /\ WindowEnd = NearestBoundary(TruncMinute(g[p].resets_at)) )
          => SameWindow(p)

\* C3 witness: a second call with another timestamp of the same window
C3_Witness ==
    \E p \in Procs :
        /\ Decided(p)
        /\ up[p].loaded.kind = "ok"
        /\ pghost.raw # g[p].resets_at
        /\ WindowEnd = NearestBoundary(TruncMinute(g[p].resets_at))
        /\ SameWindow(p)

\* the write of updatePeriodCost by p succeeds in this step
PeriodWritten(p) == up[p].st = "writing" /\ up'[p].st = "written"

\* the key the call of p computes
KeyOf(p) == ToISO(NormalizeReset(g[p].resets_at))

\* C8: a call with a reset timestamp and a non-zero cost that finds no record,
\* or a record of another reset timestamp, always writes, and its write leaves
\* exactly this session's cost, the new key and this session as last session.
C8_NewWindowResets ==
    /\ [](\A p \in Procs :
            (Decided(p) /\ (up[p].loaded.kind # "ok"
                              \/ up[p].loaded.resets_at # KeyOf(p)))
            => up[p].st = "writing")
    /\ [][\A p \in Procs :
            ( /\ PeriodWritten(p)
              /\ g[p].five = "known"
              /\ input[p].cost # 0
              /\ \/ up[p].loaded.kind # "ok"
                 \/ up[p].loaded.resets_at # KeyOf(p) )
            => period' = PeriodCostData(KeyOf(p), input[p].cost,
                                        input[p].session_id)]_vars

\* C8 witness: a record of an earlier window was replaced by this session's
C8_Witness ==
    \E p \in Procs :
        /\ up[p].st = "written"
        /\ up[p].loaded.kind = "ok"
        /\ up[p].loaded.resets_at # period.resets_at
        /\ up[p].loaded.cost > 0
        /\ period = PeriodCostData(KeyOf(p), input[p].cost, input[p].session_id)

\* C9: a call in the window of the record, by another session than the last
\* one, always writes, and its write leaves the stored cost plus this
\* session's cost, with this session as last session.
C9_SameWindowAdds ==
    /\ [](\A p \in Procs :
            ( /\ Decided(p)
              /\ up[p].loaded.kind = "ok"
              /\ up[p].loaded.resets_at = KeyOf(p)
              /\ up[p].loaded.last_session_id # input[p].session_id )
            => up[p].st = "writing")
    /\ [][\A p \in Procs :
            ( /\ PeriodWritten(p)
              /\ g[p].five = "known"
              /\ up[p].loaded.kind = "ok"
              /\ up[p].loaded.resets_at = KeyOf(p)
              /\ up[p].loaded.last_session_id # input[p].session_id )
            => period' = PeriodCostData(KeyOf(p),
                                        up[p].loaded.cost + input[p].cost,
                                        input[p].session_id)]_vars

\* C9 witness: the record holds the costs of two sessions, the second one last
C9_Witness ==
    \E p \in Procs :
        /\ up[p].st = "written"
        /\ up[p].loaded.kind = "ok"
        /\ up[p].loaded.last_session_id # input[p].session_id
        /\ pghost.counted = [s \in Sessions |-> 1]
        /\ period.cost = up[p].loaded.cost + input[p].cost
        /\ period.last_session_id = input[p].session_id

\* C10: while nothing is written, the cost getCurrentPeriodCost has returned is
\* the stored cumulative cost if there is a readable record whose window has
\* not ended, and 0 otherwise.
C10_NoStaleCost ==
    \A p \in Procs :
        (pc[p] = "gather" /\ g[p].periodDone)
        => g[p].periodCost =
              IF period.kind = "ok" /\ now <= WindowEnd THEN period.cost ELSE 0

\* C10 witness: a record with a cost whose window has ended is read as 0
C10_Witness ==
    \E p \in Procs :
        /\ pc[p] = "gather"
        /\ g[p].periodDone
        /\ period.kind = "ok"
        /\ period.cost > 0
        /\ now > WindowEnd
        /\ g[p].periodCost = 0

----------------------------------------------------------------------------
(* Properties of the invocation and of the report commands *)

\* C4: no write of the ledger or of the period record has completed or failed
\* before the lines are printed; the printing turn writes nothing and shows
\* totals computed from the two files as they are then; what was printed
\* stays as it is whatever the writes do.
C4_PrintBeforeWrites ==
    /\ [](\A p \in Procs :
            (sv[p].st \in {"written", "failed"} \/ up[p].st \in {"written", "failed"})
            => out[p].printed)
    /\ [][\A p \in Procs :
            (pc[p] = "gather" /\ pc'[p] = "bg")
            => /\ ledger' = ledger
               /\ period' = period
               /\ out'[p].printed
               /\ out'[p].todayTotal = getTodayCost(ledger, now) + input[p].cost
               /\ g[p].five # "unknown" =>
                     out'[p].periodTotal =
                        getCurrentPeriodCost(period, now) + input[p].cost]_vars
    /\ [][\A p \in Procs :
            (pc[p] = "bg" /\ pc'[p] = "bg") => out'[p] = out[p]]_vars

\* C4 witness: both writes failed after the lines were printed
C4_Witness ==
    \E p \in Procs :
        /\ out[p].printed
        /\ sv[p].st = "failed"
        /\ up[p].st = "failed"

\* C6 (as claimed): the report commands never fail, whatever the ledger file
\* is.
C6_ReportsNeverFail == report.status # "uncaught error"

\* the records of the ledger file with a given id
RecordsOf(file, id) == {i \in 1..Len(file.sessions) : file.sessions[i].id = id}

\* the write of saveSession by p succeeds in this step
LedgerWritten(p) == sv[p].st = "writing" /\ sv'[p].st = "written"

C5_AlwaysPrints ==
    /\ \A p \in SeqProcs : (pc[p] = "gather") ~> out[p].printed
    /\ [](\A p \in SeqProcs :
            out[p].printed
            => /\ out[p].cost = input[p].cost
               /\ out[p].tokens = g[p].tokens
               /\ out[p].duration = input[p].duration_ms \div MsPerMinute
               /\ g[p].gitBy = "timer" => out[p].git = "empty"
               /\ g[p].usageBy = "timer" => out[p].five = "unknown")

\* C5 witness: printed with both timers having won, the git answer come late,
\* the usage answer not come, no transcript and both files unreadable
C5_Witness ==
    \E p \in SeqProcs :
        /\ out[p].printed
        /\ g[p].gitBy = "timer" /\ g[p].gitSrc = "done" /\ out[p].git = "empty"
        /\ g[p].usageBy = "timer" /\ g[p].usageSrc = "running"
        /\ out[p].five = "unknown"
        /\ out[p].tokens = 0
        /\ ledger.kind = "corrupt"
        /\ period.kind = "corrupt"

\* the usage-bearing records that are neither side-channel nor error-marked
UsageRecords(ls) ==
    {i \in 1..Len(ls) :
        /\ ls[i].parsable
        /\ ls[i].hasUsage
        /\ ~ls[i].isSidechain
        /\ ~ls[i].isApiErrorMessage}

\* those of them whose timestamp is a date
DatedRecords(ls) == {i \in UsageRecords(ls) : ls[i].timestamp.kind = "valid"}

\* C7 (as claimed): the scan returns the token sum of a record with the latest
\* timestamp among the usage-bearing records that are neither side-channel nor
\* error-marked, wherever unparsable lines and records with unusable
\* timestamps stand, and 0 when there is no usage-bearing record or no file.
\* (Where every such record has an unusable timestamp, 0 or the sum of one of
\* them is accepted.)
C7_LatestRecord ==
    scanned.done =>
        LET ls == transcript.lines
            dated == DatedRecords(ls)
        IN  IF ~transcript.exists \/ UsageRecords(ls) = {}
            THEN scanned.tokens = 0
            ELSE IF dated = {}
            THEN \/ scanned.tokens = 0
                 \/ \E i \in UsageRecords(ls) :
                       scanned.tokens = UsageSum(ls[i].usage)
            ELSE \E i \in dated :
                    /\ \A j \in dated : ls[j].timestamp.t <= ls[i].timestamp.t
                    /\ scanned.tokens = UsageSum(ls[i].usage)

----------------------------------------------------------------------------
(* The month report *)

\* the month report has printed its day lines and its total
MonthListed == report.cmd = "month" /\ report.status = "listed"

\* first day of the calendar month of now, in the time zone of the report
CurrentMonthStart == MonthStartDay((now + report.tz) \div DayLen)

\* the ledger records dated in the current calendar month
CurrentMonthSessions ==
    LET InCurrentMonth(s) == s.date >= CurrentMonthStart
    IN  SelectSeq(ledger.sessions, InCurrentMonth)

\* the day lines stand newest first and their subtotals sum to the totals
MonthReportConsistent ==
    MonthListed =>
        /\ \A i, j \in 1..Len(report.days) :
              i < j => report.days[i].date > report.days[j].date
        /\ report.total = SumField(report.days, "cost")
        /\ report.duration = SumField(report.days, "duration")
        /\ report.count = SumField(report.days, "count")

\* C11 (as claimed): the month report lists exactly the ledger records dated
\* in the current calendar month, none of the month before, whatever now is;
\* its days stand newest first and their subtotals sum to the grand totals.
C11_MonthReport ==
    /\ MonthReportConsistent
    /\ MonthListed =>
          /\ {report.days[i].date : i \in 1..Len(report.days)}
                = Dates(CurrentMonthSessions)
          /\ \A i \in 1..Len(report.days) :
                report.days[i] = DayLine(CurrentMonthSessions,
                                         report.days[i].date)
          /\ report.total = SumCost(CurrentMonthSessions)
          /\ report.count = Len(CurrentMonthSessions)

----------------------------------------------------------------------------
(* Overlapping writers *)

\* the record of session id in a list of sessions, as a set
RecordSet(ss, id) == {ss[i] : i \in {j \in 1..Len(ss) : ss[j].id = id}}

\* a completed write leaves the file as the full text the writer has built
\* from what it had loaded
LastWriterWins ==
    /\ \A p \in Procs :
          LedgerWritten(p) => ledger' = OkLedger(sv[p].data)
    /\ \A p \in Procs :
          PeriodWritten(p) => period' = up[p].data

\* a writer whose load is older than the file's last write undoes that write:
\* the other sessions' records are again as the writer had loaded them
OtherUpsertLost ==
    \A p \in Procs :
        LedgerWritten(p)
        => \A s \in Sessions \ {input[p].session_id} :
              RecordSet(ledger'.sessions, s) = RecordSet(sv[p].loaded, s)

\* a writer that has loaded what the file still holds loses nothing: every
\* other session's record stays and its own holds this invocation's cost
NoLossWithoutOverlap ==
    \A p \in Procs :
        ( /\ LedgerWritten(p)
          /\ ledger.kind \in {"ok", "absent"}
          /\ sv[p].loaded = ledger.sessions )
        => /\ ledger'.kind = "ok"
           /\ \A s \in Sessions \ {input[p].session_id} :
                 RecordSet(ledger'.sessions, s) = RecordSet(ledger.sessions, s)
           /\ RecordSet(ledger'.sessions, input[p].session_id)
                 = {SpendSession(input[p], now)}

\* C12 (as claimed): where invocations overlap, each file ends as the full
\* content written by its last writer, the other invocation's upsert being
\* lost, and as nothing else; where they do not overlap no upsert is lost.
C12_LastWriterWins ==
    [][LastWriterWins /\ OtherUpsertLost /\ NoLossWithoutOverlap]_vars

\* the same of the writes that no other write of the file has overtaken
LastWriterWinsUnraced ==
    [][ /\ \A p \in Procs :
             (LedgerWritten(p) /\ ~sv[p].raced)
             => /\ ledger' = OkLedger(sv[p].data)
                /\ \A s \in Sessions \ {input[p].session_id} :
                      RecordSet(ledger'.sessions, s)
                        = RecordSet(sv[p].loaded, s)
        /\ \A p \in Procs :
             (PeriodWritten(p) /\ ~up[p].raced) => period' = up[p].data ]_vars

\* two invocations of different sessions had both loaded the ledger, both
\* have written, and the file holds the record of one of them only
LostUpsertReached ==
    \E p \in Procs : \E q \in Procs \ {p} :
        /\ sv[p].st = "written" /\ sv[q].st = "written"
        /\ input[p].session_id # input[q].session_id
        /\ sv[p].loaded = sv[q].loaded
        /\ ledger = OkLedger(sv[p].data)
        /\ RecordSet(ledger.sessions, input[q].session_id) = {}

----------------------------------------------------------------------------
(* The amounts on the status line *)

\* p prints in this step
Prints(p) == pc[p] = "gather" /\ pc'[p] = "bg" /\ out'[p].printed

\* the period record is of the window the usage API reports to p, the window
\* is still open and the cost of p's session has been added to the record
CountedInOpenWindow(p) ==
    /\ g[p].five = "known"
    /\ period.kind = "ok"
    /\ period.resets_at = KeyOf(p)
    /\ now <= FromISO(period.resets_at)
    /\ pghost.counted[input[p].session_id] >= 1

\* C13 (as claimed): the period cost shown counts the invoking session once:
\* where the stored cost holds a cost of the session already, what is shown is
\* less than the stored cost plus the session's cost.
C13_PeriodShownOnce ==
    [][\A p \in Procs :
         (Prints(p) /\ CountedInOpenWindow(p) /\ input[p].cost > 0)
         => out'[p].periodTotal < period.cost + input[p].cost]_vars

\* the ledger records dated today of the sessions other than id
OthersToday(id) ==
    LET Counts(s) == s.date = TodayStr(now) /\ s.id # id
    IN  SelectSeq(ledger.sessions, Counts)

\* the cost in the ledger record dated today of session id, 0 without one
StoredToday(id) ==
    LET Own(s) == s.date = TodayStr(now) /\ s.id = id
    IN  SumCost(SelectSeq(ledger.sessions, Own))

\* C14 (as claimed): the daily spend shown is the sum of the costs of the
\* sessions recorded today, the invoking session counted once, whether or not
\* the ledger holds a record of it.  (For the invoking session its current
\* cost or the cost of its record is accepted.)
C14_TodayShownOnce ==
    [][\A p \in Procs :
         (Prints(p) /\ ledger.kind = "ok" /\ input[p].cost > 0)
         => \/ out'[p].todayTotal
                = SumCost(OthersToday(input[p].session_id)) + input[p].cost
            \/ /\ StoredToday(input[p].session_id) > 0
               /\ out'[p].todayTotal
                    = SumCost(OthersToday(input[p].session_id))
                        + StoredToday(input[p].session_id)]_vars

====
